---- MODULE Spec2Model ----
(***************************************************************************)
(* Model of plugins/module_utils/compose_v2.py: the docker compose event   *)
(* stream parser (parse_events) and the aggregators that consume its       *)
(* result (has_changes, extract_actions, is_failed, update_failed,         *)
(* BaseComposeManager.update_result), and of plugins/inventory/            *)
(* docker_swarm.py: the host URI that InventoryModule._populate sets.      *)
(*                                                                         *)
(* Text.  A Python string is modelled as a sequence of atoms.  An atom is  *)
(* either one whitespace character (" ", "\t", "\n") or a whitespace-free  *)
(* chunk of characters ("Container", "c1", "-", ...); the literals of the  *)
(* program's format strings are spelled chunk by chunk in the same way.    *)
(* No atom used below is a prefix of another one, so two atom sequences    *)
(* are equal exactly when the strings they spell are equal, and one is a   *)
(* prefix of the other exactly when the strings are.  Python's None is the *)
(* empty option <<>> and a present value v is the option <<v>>, so that    *)
(* None and the empty string stay different values.                        *)
(***************************************************************************)
EXTENDS Integers, Sequences, FiniteSets, TLC

\* ------------------------------------------------------------------ bounds
\* Number of lines of stderr handed to one parse_events call.
MaxLines == 3

\* Number of lines of stderr of one compose invocation whose events are
\* handed to the aggregators of the result.
MaxSupplied == 2

\* Number of update_result calls on one result dict.
MaxCalls == 2

\* Number of times has_changes or extract_actions is called on one list.
MaxRepeat == 2

\* Number of nodes the swarm lists.
MaxNodes == 2

\* ------------------------------------------------------------------ text
None == << >>
Some(v) == << v >>
Val(o) == o[1]

\* A one-chunk string.
S(a) == << a >>

Whitespace == {" ", "\t", "\n"}

RECURSIVE lstrip(_)
lstrip(s) ==
    IF s # << >> /\ Head(s) \in Whitespace THEN lstrip(Tail(s)) ELSE s

RECURSIVE rstrip(_)
rstrip(s) ==
    IF s # << >> /\ s[Len(s)] \in Whitespace
    THEN rstrip(SubSeq(s, 1, Len(s) - 1))
    ELSE s

strip(s) == rstrip(lstrip(s))

startswith(s, prefix) ==
    /\ Len(s) >= Len(prefix)
    /\ SubSeq(s, 1, Len(prefix)) = prefix

\* s[n:]
DropFirst(s, n) == SubSeq(s, n + 1, Len(s))

\* Length of the longest whitespace-free prefix of s (what \S+ consumes).
RECURSIVE NonSpaceRun(_)
NonSpaceRun(s) ==
    IF s # << >> /\ Head(s) \notin Whitespace
    THEN 1 + NonSpaceRun(Tail(s))
    ELSE 0

\* '\n'.join(parts)
RECURSIVE join(_, _)
join(sep, parts) ==
    IF parts = << >> THEN << >>
    ELSE IF Len(parts) = 1 THEN parts[1]
    ELSE parts[1] \o sep \o join(sep, Tail(parts))

NL == S("\n")

\* ------------------------------------------------------------------ constants
DOCKER_STATUS_DONE ==
    { S("Started"), S("Healthy"), S("Exited"), S("Restarted"), S("Running"),
      S("Created"), S("Stopped"), S("Killed"), S("Removed"),
      S("Recreated"),
      S("Pulled") }

DOCKER_STATUS_WORKING ==
    { S("Creating"), S("Starting"), S("Waiting"), S("Restarting"),
      S("Stopping"), S("Killing"), S("Removing"),
      S("Recreate"),
      S("Pulling") }

DOCKER_STATUS_PULL == { S("Pulled"), S("Pulling") }

DOCKER_STATUS_ERROR == { S("Error") }

\* The union without the ERROR set.
DOCKER_STATUS_NoError ==
    DOCKER_STATUS_DONE \cup DOCKER_STATUS_WORKING \cup DOCKER_STATUS_PULL

DOCKER_STATUS ==
    DOCKER_STATUS_DONE \cup DOCKER_STATUS_WORKING
        \cup DOCKER_STATUS_PULL \cup DOCKER_STATUS_ERROR

\* ResourceType
UNKNOWN == S("unknown")
NETWORK == S("network")
IMAGE == S("image")
VOLUME == S("volume")
CONTAINER == S("container")
SERVICE == S("service")

\* The dict with the Image and Volume values exchanged.
ResourceTypeMap_Swapped ==
    [ t \in {"Network", "Image", "Volume", "Container"} |->
        CASE t = "Network" -> NETWORK
          [] t = "Image" -> VOLUME
          [] t = "Volume" -> IMAGE
          [] t = "Container" -> CONTAINER ]

\* The dict of ResourceType.from_docker_compose_event.
ResourceTypeMap ==
    [ t \in {"Network", "Image", "Volume", "Container"} |->
        CASE t = "Network" -> NETWORK
          [] t = "Image" -> IMAGE
          [] t = "Volume" -> VOLUME
          [] t = "Container" -> CONTAINER ]

\* ResourceType.from_docker_compose_event: a missing key raises KeyError,
\* modelled as the option None.
from_docker_compose_event(resource_type) ==
    IF resource_type \in DOMAIN ResourceTypeMap
    THEN Some(ResourceTypeMap[resource_type])
    ELSE None

Event(resource_type, resource_id, status, msg) ==
    [ resource_type |-> resource_type, resource_id |-> resource_id,
      status |-> status, msg |-> msg ]

_DRY_RUN_MARKER == << "DRY-RUN", " ", "MODE", " ", "-" >>

\* ------------------------------------------------------------------ patterns
\* A match result is None or Some(record of the named groups).

\* ^\s*(?P<resource_type>Network|Image|Volume|Container)\s+(?P<resource_id>\S+)
\*  \s+(?P<status>\S(?:|.*\S))\s*$
_RE_RESOURCE_EVENT(line) ==
    LET a == lstrip(line)
        b == IF a = << >> THEN << >> ELSE Tail(a)
        c == lstrip(b)
        n == NonSpaceRun(c)
        d == DropFirst(c, n)
        e == strip(d)
    IN  IF /\ a # << >>
           /\ Head(a) \in {"Network", "Image", "Volume", "Container"}
           /\ b # << >> /\ Head(b) \in Whitespace
           /\ n >= 1
           /\ d # << >> /\ Head(d) \in Whitespace
           /\ e # << >>
        THEN Some([ resource_type |-> Head(a),
                    resource_id |-> SubSeq(c, 1, n),
                    status |-> e ])
        ELSE None

\* ^\s*(?P<id>\S+)\s+(?P<status>alternatives)\s*$ : the shape shared by
\* _RE_PULL_EVENT and _RE_ERROR_EVENT.
IdStatusMatch(line, alternatives) ==
    LET a == lstrip(line)
        n == NonSpaceRun(a)
        b == DropFirst(a, n)
        c == strip(b)
    IN  IF /\ n >= 1
           /\ b # << >> /\ Head(b) \in Whitespace
           /\ c \in alternatives
        THEN Some([ id |-> SubSeq(a, 1, n), status |-> c ])
        ELSE None

_RE_PULL_EVENT(line) == IdStatusMatch(line, DOCKER_STATUS_PULL)

_RE_ERROR_EVENT(line) == IdStatusMatch(line, DOCKER_STATUS_ERROR)

\* ------------------------------------------------------------------ diagnostics
\* to_native() of a text line: the line itself.
to_native(s) == s

\* repr() of a string without quote characters: quoted, tab escaped.
RECURSIVE escape(_)
escape(s) ==
    IF s = << >> THEN << >>
    ELSE << (IF Head(s) = "\t" THEN "\\t" ELSE Head(s)) >> \o escape(Tail(s))

repr(s) == S("'") \o escape(s) \o S("'")

ReportUrl ==
    << ".", " ", "Please", " ", "report", " ", "this", " ", "at", " ",
       "https://github.com/ansible-collections/community.docker/issues/new?assignees=&labels=&projects=&template=bug_report.md" >>

MissingMarkerText ==
    << "Event", " ", "line", " ", "is", " ", "missing", " ", "dry-run", " ",
       "mode", " ", "marker:", " " >>

CannotParseText ==
    << "Cannot", " ", "parse", " ", "event", " ", "from", " ", "line:", " " >>

MissingMarkerWarning(line) == MissingMarkerText \o repr(line) \o ReportUrl

CannotParseWarning(line) == CannotParseText \o repr(line) \o ReportUrl

\* ------------------------------------------------------------------ parse_events
\* The part of the loop body before the pattern matching: strip, blank test
\* and dry-run marker handling.  Yields the line that is matched, whether the
\* iteration is skipped, and the diagnostics emitted so far.
Prepare(error_event, raw, dry_run, warn_function) ==
    LET line == to_native(strip(raw))
    IN  IF line = << >>
        THEN [ skip |-> TRUE, line |-> line, warned |-> << >> ]
        ELSE IF dry_run /\ startswith(line, _DRY_RUN_MARKER)
        THEN [ skip |-> FALSE,
               line |-> lstrip(DropFirst(line, Len(_DRY_RUN_MARKER))),
               warned |-> << >> ]
        ELSE IF dry_run /\ error_event = None /\ warn_function
        THEN [ skip |-> FALSE, line |-> line,
               warned |-> << MissingMarkerWarning(line) >> ]
        ELSE [ skip |-> FALSE, line |-> line, warned |-> << >> ]

\* Each branch of the loop body yields the new events and error_event, the
\* diagnostics it emits (warned), whether it raises (raised) and the index of
\* the element it stores in place (assigned, 0 when it stores none).
Outcome(kind, events, error_event) ==
    [ kind |-> kind, events |-> events, error_event |-> error_event,
      warned |-> << >>, raised |-> FALSE, assigned |-> 0 ]

\* ResourceBranch that drops a text outside the vocabulary instead of
\* keeping it as the msg.
ResourceBranch_NoMsg(events, error_event, m) ==
    LET known == m.status \in DOCKER_STATUS
        status == IF known THEN Some(m.status) ELSE None
        rt == from_docker_compose_event(m.resource_type)
    IN  IF rt = None
        THEN [ Outcome("resource", events, error_event) EXCEPT !.raised = TRUE ]
        ELSE LET event == Event(Val(rt), m.resource_id, status, None)
             IN  Outcome("resource", Append(events, event),
                         IF status # None /\ Val(status) \in DOCKER_STATUS_ERROR
                         THEN Some(event) ELSE None)

\* ResourceBranch that leaves the pending error event as it is after an
\* event without an ERROR status.
ResourceBranch_KeepPending(events, error_event, m) ==
    LET known == m.status \in DOCKER_STATUS
        status == IF known THEN Some(m.status) ELSE None
        msg == IF known THEN None ELSE Some(m.status)
        rt == from_docker_compose_event(m.resource_type)
    IN  IF rt = None
        THEN [ Outcome("resource", events, error_event) EXCEPT !.raised = TRUE ]
        ELSE LET event == Event(Val(rt), m.resource_id, status, msg)
             IN  Outcome("resource", Append(events, event),
                         IF status # None /\ Val(status) \in DOCKER_STATUS_ERROR
                         THEN Some(event) ELSE error_event)

\* The line matched _RE_RESOURCE_EVENT with groups m.
ResourceBranch(events, error_event, m) ==
    LET known == m.status \in DOCKER_STATUS
        status == IF known THEN Some(m.status) ELSE None
        msg == IF known THEN None ELSE Some(m.status)
        rt == from_docker_compose_event(m.resource_type)
    IN  IF rt = None
        THEN [ Outcome("resource", events, error_event) EXCEPT !.raised = TRUE ]
        ELSE LET event == Event(Val(rt), m.resource_id, status, msg)
             IN  Outcome("resource", Append(events, event),
                         IF status # None /\ Val(status) \in DOCKER_STATUS_ERROR
                         THEN Some(event) ELSE None)

\* The line matched _RE_PULL_EVENT with groups m.
PullBranch(events, m) ==
    Outcome("pull", Append(events, Event(SERVICE, m.id, Some(m.status), None)),
            None)

\* The line matched _RE_ERROR_EVENT with groups m.
ErrorBranch(events, m) ==
    LET event == Event(UNKNOWN, m.id, Some(m.status), None)
    IN  Outcome("error", Append(events, event), Some(event))

\* ContinuationBranch that joins the line in front of the old msg.
ContinuationBranch_Reversed(events, error_event, line) ==
    LET old == Val(error_event)
        event == Event(old.resource_type, old.resource_id, old.status,
                       Some(join(NL, << line >> \o old.msg)))
    IN  IF events = << >>
        THEN [ Outcome("continuation", events, error_event) EXCEPT !.raised = TRUE ]
        ELSE [ Outcome("continuation",
                       [ events EXCEPT ![Len(events)] = event ], Some(event))
               EXCEPT !.assigned = Len(events) ]

\* ContinuationBranch that stores the copy at the head of the list.
ContinuationBranch_First(events, error_event, line) ==
    LET old == Val(error_event)
        event == Event(old.resource_type, old.resource_id, old.status,
                       Some(join(NL, old.msg \o << line >>)))
    IN  IF events = << >>
        THEN [ Outcome("continuation", events, error_event) EXCEPT !.raised = TRUE ]
        ELSE [ Outcome("continuation",
                       [ events EXCEPT ![1] = event ], Some(event))
               EXCEPT !.assigned = 1 ]

\* No pattern matched and an error event is pending.
ContinuationBranch(events, error_event, line) ==
    LET old == Val(error_event)
        event == Event(old.resource_type, old.resource_id, old.status,
                       Some(join(NL, old.msg \o << line >>)))
    IN  IF events = << >>
        THEN [ Outcome("continuation", events, error_event) EXCEPT !.raised = TRUE ]
        ELSE [ Outcome("continuation",
                       [ events EXCEPT ![Len(events)] = event ], Some(event))
               EXCEPT !.assigned = Len(events) ]

\* No pattern matched, no error event is pending, the line starts with 'Error '.
BareErrorBranch(events, line) ==
    LET event == Event(UNKNOWN, << >>, Some(S("Error")), Some(line))
    IN  Outcome("bare_error", Append(events, event), Some(event))

\* UnrecognizedBranch that also records the line as an event.
UnrecognizedBranch_Append(events, error_event, line, warn_function) ==
    [ Outcome("unrecognized",
              Append(events, Event(UNKNOWN, << >>, None, Some(line))),
              error_event)
      EXCEPT !.warned =
        IF warn_function THEN << CannotParseWarning(line) >> ELSE << >> ]

\* Nothing applied to the line.
UnrecognizedBranch(events, error_event, line, warn_function) ==
    [ Outcome("unrecognized", events, error_event) EXCEPT !.warned =
        IF warn_function THEN << CannotParseWarning(line) >> ELSE << >> ]

\* The chain with the 'Error ' prefix tested before the pending error event.
Classify_BareFirst(events, error_event, line, warn_function) ==
    LET res == _RE_RESOURCE_EVENT(line)
        pull == _RE_PULL_EVENT(line)
        err == _RE_ERROR_EVENT(line)
    IN  IF res # None THEN ResourceBranch(events, error_event, Val(res))
        ELSE IF pull # None THEN PullBranch(events, Val(pull))
        ELSE IF err # None THEN ErrorBranch(events, Val(err))
        ELSE IF startswith(line, << "Error", " " >>)
        THEN BareErrorBranch(events, line)
        ELSE IF error_event # None
        THEN ContinuationBranch(events, error_event, line)
        ELSE UnrecognizedBranch(events, error_event, line, warn_function)

\* The chain of tests of the loop body, applied to the prepared line.
Classify(events, error_event, line, warn_function) ==
    LET res == _RE_RESOURCE_EVENT(line)
        pull == _RE_PULL_EVENT(line)
        err == _RE_ERROR_EVENT(line)
    IN  IF res # None THEN ResourceBranch(events, error_event, Val(res))
        ELSE IF pull # None THEN PullBranch(events, Val(pull))
        ELSE IF err # None THEN ErrorBranch(events, Val(err))
        ELSE IF error_event # None
        THEN ContinuationBranch(events, error_event, line)
        ELSE IF startswith(line, << "Error", " " >>)
        THEN BareErrorBranch(events, line)
        ELSE UnrecognizedBranch(events, error_event, line, warn_function)

\* One iteration of the for loop of parse_events over a raw line.
ParseLine(events, error_event, raw, dry_run, warn_function) ==
    LET p == Prepare(error_event, raw, dry_run, warn_function)
        c == Classify(events, error_event, p.line, warn_function)
    IN  IF p.skip
        THEN Outcome("blank", events, error_event) @@ [ line |-> p.line ]
        ELSE [ c EXCEPT !.warned = p.warned \o c.warned ] @@ [ line |-> p.line ]

\* parse_events(stderr, dry_run, warn_function) as a whole: the events it
\* returns for the lines of stderr.
RECURSIVE parse_loop(_, _, _, _, _)
parse_loop(events, error_event, lines, dry_run, warn_function) ==
    IF lines = << >> THEN events
    ELSE LET r == ParseLine(events, error_event, Head(lines), dry_run, warn_function)
         IN  parse_loop(r.events, r.error_event, Tail(lines), dry_run, warn_function)

parse_events(lines, dry_run, warn_function) ==
    parse_loop(<< >>, None, lines, dry_run, warn_function)

\* ------------------------------------------------------------------ aggregators
\* event.status in <status set>; a status of None is in no set.
StatusIn(event, statuses) ==
    event.status # None /\ Val(event.status) \in statuses

RECURSIVE is_failed_loop(_)
is_failed_loop(events) ==
    IF events = << >> THEN FALSE
    ELSE IF StatusIn(Head(events), DOCKER_STATUS_ERROR) THEN TRUE
    ELSE is_failed_loop(Tail(events))

\* is_failed that takes only a positive return code as a failure.
is_failed_Positive(events, rc) ==
    IF rc > 0 THEN TRUE ELSE is_failed_loop(events)

is_failed(events, rc) ==
    IF rc # 0 THEN TRUE ELSE is_failed_loop(events)

\* str() of an integer, as '{code}'.format(code=rc) prints it.
RECURSIVE DecStr(_)
DecStr(n) ==
    IF n < 0 THEN S("-") \o DecStr(0 - n)
    ELSE IF n < 10
    THEN S(CASE n = 0 -> "0" [] n = 1 -> "1" [] n = 2 -> "2" [] n = 3 -> "3"
             [] n = 4 -> "4" [] n = 5 -> "5" [] n = 6 -> "6" [] n = 7 -> "7"
             [] n = 8 -> "8" [] n = 9 -> "9")
    ELSE DecStr(n \div 10) \o DecStr(n % 10)

\* ErrorMessage that prefers the status over the msg.
ErrorMessage_Status(event) ==
    LET prefix ==
            IF event.resource_type = UNKNOWN
            THEN IF event.resource_id = << >>
                 THEN << "General", " ", "error:", " " >>
                 ELSE << "Error", " ", "when", " ", "processing", " " >>
                          \o event.resource_id \o << ":", " " >>
            ELSE << "Error", " ", "when", " ", "processing", " " >>
                     \o event.resource_type \o S(" ")
                     \o event.resource_id \o << ":", " " >>
    IN  prefix \o (IF event.status # None THEN Val(event.status) ELSE Val(event.msg))

\* The message update_failed builds for one ERROR-status event.
ErrorMessage(event) ==
    LET prefix ==
            IF event.resource_type = UNKNOWN
            THEN IF event.resource_id = << >>
                 THEN << "General", " ", "error:", " " >>
                 ELSE << "Error", " ", "when", " ", "processing", " " >>
                          \o event.resource_id \o << ":", " " >>
            ELSE << "Error", " ", "when", " ", "processing", " " >>
                     \o event.resource_type \o S(" ")
                     \o event.resource_id \o << ":", " " >>
    IN  prefix \o (IF event.msg = None THEN Val(event.status) ELSE Val(event.msg))

\* The errors list of update_failed after its loop over the events.
RECURSIVE CollectErrors(_)
CollectErrors(events) ==
    IF events = << >> THEN << >>
    ELSE (IF StatusIn(Head(events), DOCKER_STATUS_ERROR)
          THEN << ErrorMessage(Head(events)) >> ELSE << >>)
         \o CollectErrors(Tail(events))

ReturnCodeMessage(rc) ==
    << "Return", " ", "code", " " >> \o DecStr(rc)
        \o << " ", "is", " ", "non-zero" >>

\* shlex_quote for arguments without quote characters: an empty argument
\* and one holding whitespace are wrapped in single quotes.
shlex_quote(arg) ==
    IF arg = << >> THEN << "'", "'" >>
    ELSE IF \A i \in 1..Len(arg) : arg[i] \notin Whitespace THEN arg
    ELSE S("'") \o arg \o S("'")

\* result[key] = value for each key of the record values.
DictUpdate(dict, values) ==
    [ k \in DOMAIN dict \cup DOMAIN values |->
        IF k \in DOMAIN values THEN values[k] ELSE dict[k] ]

update_failed(result, events, args, stdout, stderr, rc, cli) ==
    LET errors == CollectErrors(events)
        all == IF errors = << >> THEN << ReturnCodeMessage(rc) >> ELSE errors
        argv == << cli >> \o args
    IN  IF errors = << >> /\ rc = 0
        THEN [ ret |-> FALSE, result |-> result ]
        ELSE [ ret |-> TRUE,
               result |-> DictUpdate(result,
                   [ failed |-> TRUE,
                     msg |-> join(NL, all),
                     cmd |-> join(S(" "),
                                 [ i \in 1..Len(argv) |-> shlex_quote(argv[i]) ]),
                     stdout |-> to_native(stdout),
                     stderr |-> to_native(stderr),
                     rc |-> rc ]) ]

\* ------------------------------------------------------------------ update_result
RECURSIVE has_changes(_)
has_changes(events) ==
    IF events = << >> THEN FALSE
    ELSE IF StatusIn(Head(events), DOCKER_STATUS_WORKING) THEN TRUE
    ELSE has_changes(Tail(events))

\* The dict extract_actions appends for an event.
Action(event) ==
    [ what |-> event.resource_type, id |-> event.resource_id,
      status |-> Val(event.status) ]

\* extract_actions that puts each new entry in front of the list.
RECURSIVE extract_actions_Reversed(_)
extract_actions_Reversed(events) ==
    IF events = << >> THEN << >>
    ELSE extract_actions_Reversed(Tail(events))
         \o (IF StatusIn(Head(events), DOCKER_STATUS_WORKING)
             THEN << Action(Head(events)) >> ELSE << >>)

RECURSIVE extract_actions(_)
extract_actions(events) ==
    IF events = << >> THEN << >>
    ELSE (IF StatusIn(Head(events), DOCKER_STATUS_WORKING)
          THEN << Action(Head(events)) >> ELSE << >>)
         \o extract_actions(Tail(events))

\* dict.get(key) as an option, and dict.get(key, default).
GetOpt(dict, key) == IF key \in DOMAIN dict THEN Some(dict[key]) ELSE None

Get(dict, key, default) == IF key \in DOMAIN dict THEN dict[key] ELSE default

\* The outputs that are neither None nor empty, in order.
RECURSIVE Truthy(_)
Truthy(outputs) ==
    IF outputs = << >> THEN << >>
    ELSE (IF Head(outputs) # None /\ Val(Head(outputs)) # << >>
          THEN << Val(Head(outputs)) >> ELSE << >>)
         \o Truthy(Tail(outputs))

combine_text_output(outputs) == join(NL, Truthy(outputs))

\* update_result that stores the values of this call only.
update_result_Overwrite(result, events, stdout, stderr) ==
    DictUpdate(result,
        [ changed |-> has_changes(events),
          actions |-> extract_actions(events),
          stdout |-> combine_text_output(
                         << GetOpt(result, "stdout"), Some(to_native(stdout)) >>),
          stderr |-> combine_text_output(
                         << GetOpt(result, "stderr"), Some(to_native(stderr)) >>) ])

update_result(result, events, stdout, stderr) ==
    DictUpdate(result,
        [ changed |-> Get(result, "changed", FALSE) \/ has_changes(events),
          actions |-> Get(result, "actions", << >>) \o extract_actions(events),
          stdout |-> combine_text_output(
                         << GetOpt(result, "stdout"), Some(to_native(stdout)) >>),
          stderr |-> combine_text_output(
                         << GetOpt(result, "stderr"), Some(to_native(stderr)) >>) ])

\* ------------------------------------------------------------------ inputs
Marker == _DRY_RUN_MARKER

\* The raw lines a compose invocation can print, one of each shape the
\* parser distinguishes.
Lines ==
    { << " " >>,
      << " ", "Network", " ", " ", "n1", "\t", "Creating", " " >>,
      << "Container", " ", "c1", " ", "Error" >>,
      << "Image", " ", "i1", " ", "not", " ", " ", "found" >>,
      << "web", " ", "Pulling" >>,
      << "web", " ", "Error" >>,
      << "Error", " ", "response" >>,
      << " ", "additional", " ", "detail" >>,
      Marker,
      Marker \o << " ", "Network", " ", "n1", " ", "Created" >>,
      Marker \o << "web", " ", "Error" >> }

ReturnCodes == { 0, 1, -1 }

Cli == S("docker")
Args == << S("compose"), S("--project-name"), << "my", " ", "proj" >>, << >> >>
Stdout == S("out")

EmptyDict == << >>

\* ------------------------------------------------------------------ state
VARIABLES
    pc,            \* "parsing", "returned", "raised", "checked", "reported"
    dry_run,       \* the dry_run argument of parse_events
    warn_function, \* whether a warn_function was passed
    stderr,        \* the raw lines read so far
    events,        \* the list being built, then the returned list
    error_event,   \* None or Some(the pending error event)
    warnings,      \* the messages passed to warn_function, in order
    last,          \* the outcome of the last loop iteration
    hist,          \* per event: the event as appended, the lines attached since
    ref,           \* the same parse with the unrecognized lines left out
    rc,            \* the return code handed to the aggregators
    failed,        \* None or Some(result of is_failed)
    ret,           \* None or Some(return value of update_failed)
    result,        \* the result dict of the module
    agg,           \* the calls of the aggregators on the result and the events
    swarm          \* the run of InventoryModule._populate

vars == << pc, dry_run, warn_function, stderr, events, error_event, warnings,
           last, hist, ref, rc, failed, ret, result, agg, swarm >>

parseVars == << dry_run, warn_function, stderr, events, error_event, warnings,
                last, hist, ref >>

\* No aggregator of the result has been called.
NoCalls == [ initial |-> EmptyDict, calls |-> << >>, has |-> << >>, acts |-> << >> ]

\* _populate has not been entered.
NoSwarm == [ phase |-> "idle" ]

NoLine == [ kind |-> "none", raw |-> << >>, line |-> << >>, warned |-> << >>,
            pending |-> FALSE, assigned |-> 0 ]

Init ==
    /\ pc = "parsing"
    /\ dry_run \in BOOLEAN
    /\ warn_function \in BOOLEAN
    /\ stderr = << >>
    /\ events = << >>
    /\ error_event = None
    /\ warnings = << >>
    /\ last = NoLine
    /\ hist = << >>
    /\ ref = [ events |-> << >>, error_event |-> None ]
    /\ rc = 0
    /\ failed = None
    /\ ret = None
    /\ result = EmptyDict
    /\ agg = NoCalls
    /\ swarm = NoSwarm

\* One iteration of the loop of parse_events.
ReadLine(raw) ==
    /\ pc = "parsing"
    /\ Len(stderr) < MaxLines
    /\ LET r == ParseLine(events, error_event, raw, dry_run, warn_function)
           q == ParseLine(ref.events, ref.error_event, raw, dry_run, warn_function)
       IN  /\ pc' = IF r.raised THEN "raised" ELSE "parsing"
           /\ stderr' = Append(stderr, raw)
           /\ events' = r.events
           /\ error_event' = r.error_event
           /\ warnings' = warnings \o r.warned
           /\ last' = [ kind |-> r.kind, raw |-> raw, line |-> r.line,
                        warned |-> r.warned, pending |-> error_event # None,
                        assigned |-> r.assigned ]
           /\ hist' =
                IF Len(r.events) > Len(events)
                THEN Append(hist, [ first |-> r.events[Len(r.events)], cont |-> << >> ])
                ELSE IF r.assigned # 0
                THEN [ hist EXCEPT ![r.assigned].cont = Append(@, r.line) ]
                ELSE hist
           /\ ref' = IF r.kind = "unrecognized" THEN ref
                     ELSE [ events |-> q.events, error_event |-> q.error_event ]
    /\ UNCHANGED << dry_run, warn_function, rc, failed, ret, result, agg, swarm >>

\* The loop ends and parse_events returns the events.
Return ==
    /\ pc = "parsing"
    /\ pc' = "returned"
    /\ UNCHANGED << parseVars, rc, failed, ret, result, agg, swarm >>

\* The caller asks is_failed about the returned events and a return code.
CallIsFailed(code) ==
    /\ pc = "returned"
    /\ pc' = "checked"
    /\ rc' = code
    /\ failed' = Some(is_failed(events, code))
    /\ UNCHANGED << parseVars, ret, result, agg, swarm >>

\* The caller hands the same events and return code to update_failed.
CallUpdateFailed ==
    /\ pc = "checked"
    /\ pc' = "reported"
    /\ LET u == update_failed(result, events, Args, Stdout, join(NL, stderr), rc, Cli)
       IN  /\ ret' = Some(u.ret)
           /\ result' = u.result
    /\ UNCHANGED << parseVars, rc, failed, agg, swarm >>

Next ==
    \/ \E raw \in Lines : ReadLine(raw)
    \/ Return
    \/ \E code \in ReturnCodes : CallIsFailed(code)
    \/ CallUpdateFailed

Spec == Init /\ [][Next]_vars

\* ------------------------------------------------------------------ result
\* The lines whose events are handed to the aggregators of the result: a
\* WORKING resource event, a WORKING pull event, a DONE event and an ERROR
\* event.
SuppliedLines ==
    { << " ", "Network", " ", " ", "n1", "\t", "Creating", " " >>,
      << "web", " ", "Pulling" >>,
      << "Container", " ", "c1", " ", "Started" >>,
      << "Container", " ", "c1", " ", "Error" >> }

Supplied == UNION { [ 1..n -> SuppliedLines ] : n \in 0..MaxSupplied }

\* The result dict a module starts from.
InitialResults == { EmptyDict, [ changed |-> TRUE ] }

InitResult ==
    /\ pc = "fresh"
    /\ dry_run = FALSE
    /\ warn_function = FALSE
    /\ stderr = << >>
    /\ events = << >>
    /\ error_event = None
    /\ warnings = << >>
    /\ last = NoLine
    /\ hist = << >>
    /\ ref = [ events |-> << >>, error_event |-> None ]
    /\ rc = 0
    /\ failed = None
    /\ ret = None
    /\ result \in InitialResults
    /\ agg = [ NoCalls EXCEPT !.initial = result ]
    /\ swarm = NoSwarm

resultFrame == << dry_run, warn_function, error_event, warnings, last, hist, ref,
                 rc, failed, ret, swarm >>

\* BaseComposeManager.parse_events on the stderr of one compose invocation.
ParseEvents(lines) ==
    /\ pc \in {"fresh", "updated"}
    /\ Len(agg.calls) < MaxCalls
    /\ pc' = "supplied"
    /\ stderr' = lines
    /\ events' = parse_events(lines, dry_run, warn_function)
    /\ agg' = [ agg EXCEPT !.has = << >>, !.acts = << >> ]
    /\ UNCHANGED << resultFrame, result >>

\* has_changes is called on the events.
CallHasChanges ==
    /\ pc = "supplied"
    /\ Len(agg.has) < MaxRepeat
    /\ agg' = [ agg EXCEPT !.has = Append(@, has_changes(events)) ]
    /\ UNCHANGED << resultFrame, pc, stderr, events, result >>

\* extract_actions is called on the events.
CallExtractActions ==
    /\ pc = "supplied"
    /\ Len(agg.acts) < MaxRepeat
    /\ agg' = [ agg EXCEPT !.acts = Append(@, extract_actions(events)) ]
    /\ UNCHANGED << resultFrame, pc, stderr, events, result >>

\* BaseComposeManager.update_result with the events.
CallUpdateResult ==
    /\ pc = "supplied"
    /\ pc' = "updated"
    /\ result' = update_result(result, events, Stdout, join(NL, stderr))
    /\ agg' = [ agg EXCEPT !.calls = Append(@, events) ]
    /\ UNCHANGED << resultFrame, stderr, events >>

NextResult ==
    \/ \E lines \in Supplied : ParseEvents(lines)
    \/ CallHasChanges
    \/ CallExtractActions
    \/ CallUpdateResult

SpecResult == InitResult /\ [][NextResult]_vars

\* ------------------------------------------------------------------ docker_swarm
\* The options _populate reads.  include_host_uri_port is None when it is
\* not set.
SwarmOptions ==
    [ include_host_uri : BOOLEAN,
      include_host_uri_port : { None, Some(0), Some(2377) },
      tls : BOOLEAN,
      validate_certs : BOOLEAN,
      verbose_output : BOOLEAN ]

\* The attrs of the nodes the API can list: a worker, a manager that is not
\* the leader, and the leader (whose Status.Addr is the unspecified address).
SwarmNodes ==
    { [ ID |-> S("id-w1"), Role |-> "worker", Addr |-> S("w1.swarm"),
        ManagerStatus |-> None ],
      [ ID |-> S("id-m2"), Role |-> "manager", Addr |-> S("m2.swarm"),
        ManagerStatus |-> Some([ Leader |-> FALSE,
                                 Addr |-> S("m2.swarm") \o S(":") \o DecStr(2377) ]) ],
      [ ID |-> S("id-m1"), Role |-> "manager", Addr |-> S("unspecified"),
        ManagerStatus |-> Some([ Leader |-> TRUE,
                                 Addr |-> S("m1.swarm") \o S(":") \o DecStr(2377) ]) ] }

\* parse_address(address)[0] for an address of the form host:port.
parse_address_host(address) ==
    IF Len(address) >= 1 /\ address[1] # ":" THEN Some(S(address[1])) ELSE None

\* The value of host_uri_port after lines 199-205; None while it is unbound.
host_uri_port(opts) ==
    IF opts.include_host_uri
    THEN IF opts.include_host_uri_port # None /\ Val(opts.include_host_uri_port) # 0
         THEN Some(DecStr(Val(opts.include_host_uri_port)))
         ELSE IF opts.tls \/ opts.validate_certs
         THEN Some(<< "2", "3", "7", "6" >>)
         ELSE Some(<< "2", "3", "7", "5" >>)
    ELSE None

\* inventory.add_host(host, group) and inventory.set_variable(host, key, value)
add_host(inv, host, group) ==
    [ inv EXCEPT
        !.groups = [ @ EXCEPT ![group] = @ \cup { host } ],
        !.hostvars = IF host \in DOMAIN @ THEN @ ELSE DictUpdate(@, host :> << >>) ]

set_variable(inv, host, key, value) ==
    [ inv EXCEPT !.hostvars = [ @ EXCEPT ![host] = DictUpdate(@, key :> value) ] ]

HostUri(addr, port) == S("tcp://") \o addr \o S(":") \o port

\* The body of the loop over the nodes (lines 210-234) for one node.
PopulateNode(inv, opts, port, node) ==
    LET a == add_host(add_host(inv, node.ID, "all"), node.ID, node.Role)
        b == set_variable(a, node.ID, "ansible_host", node.Addr)
        c == IF opts.include_host_uri
             THEN set_variable(b, node.ID, "ansible_host_uri",
                               HostUri(node.Addr, Val(port)))
             ELSE b
        d == IF opts.verbose_output
             THEN set_variable(c, node.ID, "docker_swarm_node_attributes", node)
             ELSE c
        parsed == parse_address_host(Val(node.ManagerStatus).Addr)
        swarm_leader_ip == IF parsed # None THEN Val(parsed) ELSE node.Addr
        e == IF opts.include_host_uri
             THEN set_variable(d, node.ID, "ansible_host_uri",
                               HostUri(swarm_leader_ip, Val(port)))
             ELSE d
    IN  IF node.ManagerStatus # None /\ Val(node.ManagerStatus).Leader
        THEN add_host(set_variable(e, node.ID, "ansible_host", swarm_leader_ip),
                      node.ID, "leader")
        ELSE add_host(d, node.ID, "nonleaders")

composeVars == << pc, dry_run, warn_function, stderr, events, error_event,
                 warnings, last, hist, ref, rc, failed, ret, result, agg >>

InitSwarm ==
    /\ pc = "inventory"
    /\ dry_run = FALSE
    /\ warn_function = FALSE
    /\ stderr = << >>
    /\ events = << >>
    /\ error_event = None
    /\ warnings = << >>
    /\ last = NoLine
    /\ hist = << >>
    /\ ref = [ events |-> << >>, error_event |-> None ]
    /\ rc = 0
    /\ failed = None
    /\ ret = None
    /\ result = EmptyDict
    /\ agg = NoCalls
    /\ \E opts \in SwarmOptions :
         swarm = [ phase |-> "entered", opts |-> opts, port |-> None, listed |-> 0,
                   inv |-> [ groups |-> << >>, hostvars |-> << >> ] ]

\* _populate connects and creates the five groups (lines 176-197).
AddGroups ==
    /\ swarm.phase = "entered"
    /\ swarm' = [ swarm EXCEPT
                    !.phase = "connected",
                    !.inv.groups = [ g \in {"all", "manager", "worker", "leader",
                                            "nonleaders"} |-> {} ] ]
    /\ UNCHANGED composeVars

\* _populate settles host_uri_port (lines 199-205).
ChoosePort ==
    /\ swarm.phase = "connected"
    /\ swarm' = [ swarm EXCEPT !.phase = "listing",
                               !.port = host_uri_port(swarm.opts) ]
    /\ UNCHANGED composeVars

\* One iteration of the loop over the listed nodes.
AddNode(node) ==
    /\ swarm.phase = "listing"
    /\ swarm.listed < MaxNodes
    /\ swarm' = [ swarm EXCEPT
                    !.listed = @ + 1,
                    !.inv = PopulateNode(@, swarm.opts, swarm.port, node) ]
    /\ UNCHANGED composeVars

\* The loop ends and _populate returns.
EndPopulate ==
    /\ swarm.phase = "listing"
    /\ swarm' = [ swarm EXCEPT !.phase = "done" ]
    /\ UNCHANGED composeVars

NextSwarm ==
    \/ AddGroups
    \/ ChoosePort
    \/ \E node \in SwarmNodes : AddNode(node)
    \/ EndPopulate

SpecSwarm == InitSwarm /\ [][NextSwarm]_vars

\* ------------------------------------------------------------------ properties
\* A loop iteration of parse_events has just run on a non-blank line.
Iterated == stderr' # stderr /\ strip(last'.raw) # << >>

\* The line the iteration matched against the patterns.
Matched == last'.line

NoPattern(line) ==
    /\ _RE_RESOURCE_EVENT(line) = None
    /\ _RE_PULL_EVENT(line) = None
    /\ _RE_ERROR_EVENT(line) = None

Vocabulary ==
    DOCKER_STATUS_DONE \cup DOCKER_STATUS_WORKING
        \cup DOCKER_STATUS_PULL \cup DOCKER_STATUS_ERROR

LowerCase(token) ==
    CASE token = "Network" -> S("network")
      [] token = "Image" -> S("image")
      [] token = "Volume" -> S("volume")
      [] token = "Container" -> S("container")

LastEvent(evs) == evs[Len(evs)]

\* C1: a line that matches the resource-event pattern appends exactly one
\* event, of the lower-case type and with the id of the line; its text is the
\* status (msg None) when it is in the status vocabulary and the msg (status
\* None) otherwise, so exactly one of status and msg is set.
C1_ResourceLine ==
    [][ (Iterated /\ _RE_RESOURCE_EVENT(Matched) # None) =>
          LET m == Val(_RE_RESOURCE_EVENT(Matched))
              e == LastEvent(events')
          IN  /\ Len(events') = Len(events) + 1
              /\ SubSeq(events', 1, Len(events)) = events
              /\ e.resource_type = LowerCase(m.resource_type)
              /\ e.resource_id = m.resource_id
              /\ IF m.status \in Vocabulary
                 THEN e.status = Some(m.status) /\ e.msg = None
                 ELSE e.status = None /\ e.msg = Some(m.status)
              /\ (e.status = None) # (e.msg = None) ]_vars

C1_Witness ==
    /\ last.raw = << "Image", " ", "i1", " ", "not", " ", " ", "found" >>
    /\ events # << >>
    /\ LastEvent(events) =
         Event(S("image"), S("i1"), None, Some(<< "not", " ", " ", "found" >>))

\* C2: with an error event pending, a non-blank line that matches no pattern
\* appends nothing and replaces the last event by a copy whose msg is the old
\* msg, a newline and the line (the line alone when the msg was None); the
\* event stays pending.  After k such lines the msg holds the k lines in input
\* order behind the msg the event was appended with.
C2_Continuation ==
    /\ [][ (Iterated /\ error_event # None /\ NoPattern(Matched)) =>
             LET old == LastEvent(events)
                 new == Event(old.resource_type, old.resource_id, old.status,
                              Some(IF old.msg = None THEN Matched
                                   ELSE Val(old.msg) \o << "\n" >> \o Matched))
             IN  /\ Len(events') = Len(events)
                 /\ events' = SubSeq(events, 1, Len(events) - 1) \o << new >>
                 /\ error_event' = Some(new) ]_vars
    /\ [](\A i \in 1..Len(events) :
             LET first == hist[i].first
                 cont == hist[i].cont
             IN  /\ Len(hist) = Len(events)
                 /\ events[i].resource_type = first.resource_type
                 /\ events[i].resource_id = first.resource_id
                 /\ events[i].status = first.status
                 /\ cont = << >> => events[i] = first
                 /\ cont # << >> =>
                      events[i].msg = Some(join(<< "\n" >>, first.msg \o cont)))

C2_Witness ==
    /\ Len(events) = 1
    /\ Len(hist[1].cont) = 2
    /\ hist[1].cont[1] # hist[1].cont[2]
    /\ error_event = Some(events[1])

\* C3: a line that starts with 'Error ' and matches no pattern creates a new
\* pending event (unknown, empty id, status Error, msg the line) exactly when
\* no error event is pending; with one pending nothing is appended and the
\* line is absorbed into the pending event.
C3_BareError ==
    [][ (Iterated /\ NoPattern(Matched) /\ startswith(Matched, << "Error", " " >>)) =>
          LET new == Event(S("unknown"), << >>, Some(S("Error")), Some(Matched))
          IN  /\ error_event = None =>
                   /\ events' = Append(events, new)
                   /\ error_event' = Some(new)
              /\ error_event # None =>
                   /\ Len(events') = Len(events)
                   /\ LastEvent(events') # new
                   /\ LastEvent(events').resource_id = LastEvent(events).resource_id
                   /\ LastEvent(events').msg =
                          Some(IF LastEvent(events).msg = None THEN Matched
                               ELSE Val(LastEvent(events).msg)
                                        \o << "\n" >> \o Matched) ]_vars

C3_Witness ==
    /\ last.pending
    /\ last.line = << "Error", " ", "response" >>
    /\ Len(events) = 1
    /\ events[1].resource_id = S("web")

\* C4: every event of the sequence has a status or a msg, at every step of
\* the parse and in the returned list.
C4_StatusOrMsg ==
    \A i \in 1..Len(events) : events[i].status # None \/ events[i].msg # None

C4_Witness ==
    /\ pc = "returned"
    /\ Len(events) = 3
    /\ events[1].status = None
    /\ events[2].msg = None
    /\ events[3].status # None /\ events[3].msg # None

\* C5 as stated: every event is replaced in place at most once over the
\* whole parse.
C5_ReplacedOnce ==
    \A i \in 1..Len(hist) : Len(hist[i].cont) <= 1

\* C5 amended: the sequence never shrinks, every element but the last is
\* left as it is, and the last element is replaced in place once for each
\* continuation line read while it is the pending error event, which may be
\* more than once.
C5_TailOnly ==
    /\ [][ /\ Len(events') >= Len(events)
           /\ \A i \in 1..(Len(events) - 1) : events'[i] = events[i]
           /\ last'.assigned # 0 =>
                /\ last'.assigned = Len(events)
                /\ Len(events') = Len(events)
           /\ (events # << >> /\ Len(events') = Len(events)
                 /\ LastEvent(events') # LastEvent(events)) =>
                /\ error_event = Some(LastEvent(events))
                /\ NoPattern(Matched) ]_vars
    /\ [](\A i \in 1..(Len(hist) - 1) :
             hist[i].cont # << >> => hist[i].first.status = Some(S("Error")))

C5_Witness ==
    /\ Len(events) = 1
    /\ events[1].resource_type = S("container")
    /\ last.assigned = 1
    /\ Len(hist[1].cont) = 2
    /\ events[1] # hist[1].first

\* C6 as stated: the four status sets are pairwise disjoint and their union
\* is DOCKER_STATUS, the vocabulary the statuses of the events come from.
C6_Disjoint ==
    /\ DOCKER_STATUS_DONE \cap DOCKER_STATUS_WORKING = {}
    /\ DOCKER_STATUS_DONE \cap DOCKER_STATUS_PULL = {}
    /\ DOCKER_STATUS_DONE \cap DOCKER_STATUS_ERROR = {}
    /\ DOCKER_STATUS_WORKING \cap DOCKER_STATUS_PULL = {}
    /\ DOCKER_STATUS_WORKING \cap DOCKER_STATUS_ERROR = {}
    /\ DOCKER_STATUS_PULL \cap DOCKER_STATUS_ERROR = {}
    /\ DOCKER_STATUS = Vocabulary
    /\ \A i \in 1..Len(events) :
         events[i].status # None => Val(events[i].status) \in DOCKER_STATUS

\* C6 amended: DONE, WORKING and ERROR are pairwise disjoint; PULL is
\* disjoint from ERROR but lies inside DONE and WORKING (Pulled is a DONE
\* status, Pulling a WORKING status); the union of the four sets is
\* DOCKER_STATUS, and every status an event carries belongs to it.
C6_Overlap ==
    /\ DOCKER_STATUS_DONE \cap DOCKER_STATUS_WORKING = {}
    /\ DOCKER_STATUS_DONE \cap DOCKER_STATUS_ERROR = {}
    /\ DOCKER_STATUS_WORKING \cap DOCKER_STATUS_ERROR = {}
    /\ DOCKER_STATUS_PULL \cap DOCKER_STATUS_ERROR = {}
    /\ DOCKER_STATUS_PULL \cap DOCKER_STATUS_DONE = { S("Pulled") }
    /\ DOCKER_STATUS_PULL \cap DOCKER_STATUS_WORKING = { S("Pulling") }
    /\ DOCKER_STATUS = Vocabulary
    /\ \A i \in 1..Len(events) :
         events[i].status # None => Val(events[i].status) \in DOCKER_STATUS

C6_Witness ==
    /\ events # << >>
    /\ LastEvent(events).resource_type = S("service")
    /\ LastEvent(events).status = Some(S("Pulling"))
    /\ S("Pulling") \in DOCKER_STATUS_PULL \cap DOCKER_STATUS_WORKING

\* The missing-marker diagnostics among the messages of one iteration.
MissingMarkerCount(warned, line) ==
    Cardinality({ i \in 1..Len(warned) : warned[i] = MissingMarkerWarning(line) })

HasMissingMarkerText(warned) ==
    \E i \in 1..Len(warned) : startswith(warned[i], MissingMarkerText)

\* C7: with dry_run and a diagnostic sink, a non-blank line gets the
\* missing-marker diagnostic exactly when it does not start with the marker
\* and no error event is pending, and then exactly once; the line yields the
\* events it yields with dry_run false; a line with the marker yields the
\* events of the line without it and no missing-marker diagnostic.
C7_DryRunMarker ==
    [][ (Iterated /\ dry_run /\ warn_function) =>
          LET line == strip(last'.raw)
              marked == startswith(line, << "DRY-RUN", " ", "MODE", " ", "-" >>)
              bare == IF marked THEN lstrip(SubSeq(line, 6, Len(line))) ELSE line
              plain == ParseLine(events, error_event, bare, FALSE, warn_function)
          IN  /\ MissingMarkerCount(last'.warned, line) =
                   (IF ~marked /\ error_event = None THEN 1 ELSE 0)
              /\ marked => ~HasMissingMarkerText(last'.warned)
              /\ events' = plain.events
              /\ error_event' = plain.error_event ]_vars

\* C8: a non-blank line that matches no pattern, finds no error event
\* pending and does not start with 'Error ' is reported as 'Cannot parse
\* event', appends no event and leaves the events and the pending marker as
\* they are; the parse of the whole input equals the parse of the input
\* without such lines, and parse_events never raises.
C8_Unrecognized ==
    /\ [][ (Iterated /\ NoPattern(Matched) /\ error_event = None
              /\ ~startswith(Matched, << "Error", " " >>)) =>
             /\ events' = events
             /\ error_event' = error_event
             /\ pc' = "parsing"
             /\ warn_function =>
                  /\ Len(warnings') > Len(warnings)
                  /\ SubSeq(warnings', 1, Len(warnings)) = warnings
                  /\ warnings'[Len(warnings')] =
                       << "Cannot", " ", "parse", " ", "event", " ", "from", " ",
                          "line:", " " >> \o repr(Matched) \o ReportUrl ]_vars
    /\ [](/\ ref.events = events
          /\ ref.error_event = error_event
          /\ pc # "raised")

C8_Witness ==
    /\ Len(stderr) = 3
    /\ stderr[2] = << " ", "additional", " ", "detail" >>
    /\ stderr[3] = << "web", " ", "Error" >>
    /\ Len(events) = 2
    /\ Len(warnings) = 1
    /\ startswith(warnings[1], CannotParseText)
    /\ error_event = Some(events[2])

IsErrorEvent(e) == e.status = Some(S("Error"))

ErrorEvents == SelectSeq(events, IsErrorEvent)

\* C9: is_failed is true exactly when rc is non-zero or an event has an
\* ERROR status, and update_failed returns True, and sets result['failed'],
\* for exactly the same inputs.
C9_Failed ==
    /\ pc \in {"checked", "reported"} =>
         Val(failed) = (rc # 0 \/ \E i \in 1..Len(events) :
                                     /\ events[i].status # None
                                     /\ Val(events[i].status) \in DOCKER_STATUS_ERROR)
    /\ pc = "reported" =>
         /\ Val(ret) = Val(failed)
         /\ Val(ret) = ("failed" \in DOMAIN result /\ result["failed"] = TRUE)

C9_Witness ==
    /\ pc = "reported"
    /\ rc = 0
    /\ ret = Some(TRUE)
    /\ failed = Some(TRUE)
    /\ Len(events) = 2
    /\ events[1].status = Some(S("Creating"))

\* The entry update_failed reports for an ERROR-status event.
Entry(e) ==
    (IF e.resource_type = S("unknown") /\ e.resource_id = << >>
     THEN << "General", " ", "error:", " " >>
     ELSE IF e.resource_type = S("unknown")
     THEN << "Error", " ", "when", " ", "processing", " " >>
              \o e.resource_id \o << ":", " " >>
     ELSE << "Error", " ", "when", " ", "processing", " " >>
              \o e.resource_type \o << " " >> \o e.resource_id \o << ":", " " >>)
    \o (IF e.msg # None THEN Val(e.msg) ELSE Val(e.status))

Decimal(n) ==
    CASE n = 0 -> << "0" >>
      [] n = 1 -> << "1" >>
      [] n = -1 -> << "-", "1" >>

\* C10: update_failed returns False and leaves the result as it is when no
\* event has an ERROR status and rc is 0; with no such event and rc non-zero
\* the msg is the single entry 'Return code <rc> is non-zero'; with ERROR
\* events the msg is one entry per ERROR event, in event order, joined by
\* newlines, without the return-code entry.  An entry is the prefix for the
\* event's type and id followed by the msg if present, else the status.
C10_Message ==
    [][ (pc = "checked" /\ pc' = "reported") =>
          IF ErrorEvents = << >> /\ rc = 0
          THEN ret' = Some(FALSE) /\ result' = result
          ELSE /\ ret' = Some(TRUE)
               /\ result'["msg"] =
                    IF ErrorEvents = << >>
                    THEN << "Return", " ", "code", " " >> \o Decimal(rc)
                             \o << " ", "is", " ", "non-zero" >>
                    ELSE join(<< "\n" >>,
                              [ i \in 1..Len(ErrorEvents) |-> Entry(ErrorEvents[i]) ])
               /\ result'["rc"] = rc ]_vars

C10_Witness ==
    /\ pc = "reported"
    /\ rc = 1
    /\ Len(events) = 3
    /\ Len(ErrorEvents) = 3
    /\ events[1].resource_type = S("unknown") /\ events[1].resource_id = << >>
    /\ events[2].resource_type = S("container")
    /\ events[3].resource_type = S("unknown") /\ events[3].resource_id # << >>
    /\ result["msg"] = join(<< "\n" >>, << Entry(events[1]), Entry(events[2]),
                                          Entry(events[3]) >>)

\* The positions of the WORKING-status events of a list, and the k-th of them.
WorkingAt(evs) ==
    { i \in 1..Len(evs) :
        evs[i].status # None /\ Val(evs[i].status) \in DOCKER_STATUS_WORKING }

NthWorking(evs, k) ==
    CHOOSE i \in WorkingAt(evs) :
        Cardinality({ j \in WorkingAt(evs) : j <= i }) = k

\* One entry per WORKING-status event, in the order of the events.
WorkingEntries(evs) ==
    [ k \in 1..Cardinality(WorkingAt(evs)) |->
        [ what |-> evs[NthWorking(evs, k)].resource_type,
          id |-> evs[NthWorking(evs, k)].resource_id,
          status |-> Val(evs[NthWorking(evs, k)].status) ] ]

\* C11: extract_actions returns one entry {what, id, status} per event with a
\* WORKING status, in event order, and nothing else; has_changes is true
\* exactly when that list is not empty; a repeated call returns the same
\* value and no call changes the events.
C11_Actions ==
    /\ [](/\ \A k \in 1..Len(agg.acts) : agg.acts[k] = WorkingEntries(events)
          /\ \A k \in 1..Len(agg.has) :
               agg.has[k] = (WorkingEntries(events) # << >>))
    /\ [][ (pc = "supplied" /\ pc' = "supplied") =>
             /\ events' = events
             /\ \A k \in 1..Len(agg.has) : agg'.has[Len(agg'.has)] = agg.has[k]
             /\ \A k \in 1..Len(agg.acts) : agg'.acts[Len(agg'.acts)] = agg.acts[k] ]_vars

C11_Witness ==
    /\ pc = "supplied"
    /\ Len(events) = 2
    /\ agg.has = << TRUE, TRUE >>
    /\ Len(agg.acts) = 2
    /\ agg.acts[2] =
         << [ what |-> S("service"), id |-> S("web"), status |-> S("Pulling") ],
            [ what |-> S("network"), id |-> S("n1"), status |-> S("Creating") ] >>

RECURSIVE Concatenation(_)
Concatenation(lists) ==
    IF lists = << >> THEN << >>
    ELSE Head(lists) \o Concatenation(Tail(lists))

IsPrefix(a, b) == Len(a) <= Len(b) /\ SubSeq(b, 1, Len(a)) = a

Changed(dict) == "changed" \in DOMAIN dict /\ dict["changed"] = TRUE

Actions(dict) == IF "actions" \in DOMAIN dict THEN dict["actions"] ELSE << >>

\* C14: over the update_result calls on one result dict, result['changed']
\* never goes from true to false and is true after the calls exactly when it
\* was true at the start or a supplied event list holds a WORKING-status
\* event; result['actions'] only grows at its end and is the concatenation,
\* in call order, of the entries extract_actions gives for each supplied list.
C14_UpdateResult ==
    /\ [][ /\ Changed(result) => Changed(result')
           /\ IsPrefix(Actions(result), Actions(result')) ]_vars
    /\ [](agg.calls # << >> =>
            /\ "changed" \in DOMAIN result /\ "actions" \in DOMAIN result
            /\ result["changed"] =
                 (Changed(agg.initial)
                    \/ \E k \in 1..Len(agg.calls) : WorkingAt(agg.calls[k]) # {})
            /\ result["actions"] =
                 Concatenation([ k \in 1..Len(agg.calls) |->
                                   WorkingEntries(agg.calls[k]) ]))

C14_Witness ==
    /\ pc = "updated"
    /\ agg.initial = EmptyDict
    /\ Len(agg.calls) = 2
    /\ Len(agg.calls[1]) = 2 /\ WorkingAt(agg.calls[1]) = {1, 2}
    /\ agg.calls[1][1] # agg.calls[1][2]
    /\ agg.calls[2] # << >> /\ WorkingAt(agg.calls[2]) = {}
    /\ result["changed"] = TRUE
    /\ Len(result["actions"]) = 2

HasErrorStatus(e) == e.status # None /\ Val(e.status) \in DOCKER_STATUS_ERROR

\* C13: between the lines of a parse the pending-error marker is set exactly
\* when the sequence is not empty and its last event has an ERROR status, and
\* then it is that last event.  So a line changes at most the last event: the
\* events before it stay, the sequence never shrinks, and when the last event
\* has no ERROR status (a non-error resource event, a pull event) a line that
\* matches no pattern changes no event at all.
C13_PendingIsLast ==
    /\ []((error_event # None) <=>
            (events # << >> /\ HasErrorStatus(LastEvent(events))))
    /\ [](error_event # None => Val(error_event) = LastEvent(events))
    /\ [][ /\ Len(events') >= Len(events)
           /\ SubSeq(events', 1, Len(events) - 1) = SubSeq(events, 1, Len(events) - 1)
           /\ (Iterated /\ NoPattern(Matched) /\ events # << >>
                 /\ ~HasErrorStatus(LastEvent(events))) =>
                SubSeq(events', 1, Len(events)) = events ]_vars

C13_Witness ==
    /\ Len(stderr) = 3
    /\ stderr[1] = << "web", " ", "Error" >>
    /\ stderr[2] = << "web", " ", "Pulling" >>
    /\ last.line = << "additional", " ", "detail" >>
    /\ ~last.pending
    /\ error_event = None
    /\ Len(events) = 2
    /\ events[1] = Event(S("unknown"), S("web"), Some(S("Error")), None)

\* C12: with include_host_uri enabled and include_host_uri_port not set, the
\* ansible_host_uri of every node ends in port 2376, whatever tls and
\* validate_certs are.
C12_Port2376 ==
    (/\ swarm.phase \in {"listing", "done"}
     /\ swarm.opts.include_host_uri
     /\ swarm.opts.include_host_uri_port = None) =>
        \A h \in DOMAIN swarm.inv.hostvars :
            LET uri == swarm.inv.hostvars[h]["ansible_host_uri"]
            IN  /\ Len(uri) = 7
                /\ SubSeq(uri, 3, 7) = << ":", "2", "3", "7", "6" >>

====
